---- MODULE Spec2Model ----
(***************************************************************************)
(* Model of the Tellusim Python sample (src/main.py): the setup of main,  *)
(* the frame loop main_loop driven by window.run, the shutdown sequence   *)
(* and the streaming worker thread process_callback.                      *)
(*                                                                         *)
(* The position of the render (main) thread is the line number of the     *)
(* statement of src/main.py it executes next.                             *)
(***************************************************************************)
EXTENDS Integers, Sequences, FiniteSets, TLC

\* ------------------------------------------------------------------ bounds
\* window and frame dimensions range over 0..MaxDim (0 is a zero-area size)
MaxDim == 2
\* streaming work items the scene manager can have pending at once
MaxPending == 1
\* app.getHeight() ranges over 1..MaxHeight
MaxHeight == 1
\* root.update may ask for at most this many repeated updates per frame
MaxUpdates == 2

Dims == 0..MaxDim

\* the two Async objects of main (lines 252 and 256)
Channels == {"main_async", "process_async"}

VARIABLES
    pc,          \* render thread: line of src/main.py executed next
    ret,         \* value returned by main: -1 while main has not returned
    appH,        \* app.getHeight()
    winW, winH,  \* window.getWidth(), window.getHeight()
    rfW, rfH,    \* render_frame.getWidth(), render_frame.getHeight()
    width, height, \* locals of main_loop: the interface viewport (lines 434-435)
    stopped,     \* window.stop() has been called
    loopOk,      \* the last main_loop call returned True (or none was made)
    checkFailed, \* device.check() has returned false
    frame,       \* calls made so far by the current main_loop iteration
    failed,      \* the calls that reported failure in the current main_loop iteration
    shut,        \* calls made so far by the shutdown sequence
    finalUpdate, \* result of the scene_manager.update of the shutdown sequence
    out,         \* 'Thread Done' and 'Done' log lines, in order
    terminated,  \* scene_manager.isTerminated()
    pending,     \* streaming work the scene manager has pending
    wpc,         \* worker thread: position in process_callback
    observed,    \* the worker's loop test has seen isTerminated() true
    lateProcess, \* scene_manager.process was called after that
    procAfterTerm,  \* scene_manager.process calls started after terminate()
    sleepAfterTerm, \* Time.sleep calls started after terminate()
    needSleep,   \* the last scene_manager.process call failed and no sleep followed yet
    presentAfterCheck, \* window.present() was called after device.check() failed
    resized,     \* the <<width, height>> of the 'Frame Resized' record of this iteration
    inflight,    \* per async channel, the threads inside a call that was given it
    exitStatus   \* exit status of the process: -1 while it has not terminated

vars == <<pc, ret, appH, winW, winH, rfW, rfH, width, height, stopped, loopOk,
          checkFailed, frame, failed, shut, finalUpdate, out, terminated,
          pending, wpc, observed, lateProcess, procAfterTerm, sleepAfterTerm,
          needSleep, presentAfterCheck, resized, inflight, exitStatus>>

\* variables of the window, the frame target and the interface
sizeVars == <<appH, winW, winH, rfW, rfH, width, height>>
\* variables of the worker thread and of the state it shares
workerVars == <<terminated, pending, wpc, observed, lateProcess,
                procAfterTerm, sleepAfterTerm, needSleep, out>>
\* variables of the shutdown sequence
shutVars == <<shut, finalUpdate>>
\* variables of window.run
runVars == <<stopped, loopOk, checkFailed, presentAfterCheck>>

Init ==
    /\ pc = 125
    /\ ret = -1
    /\ appH = 0
    /\ winW = 0 /\ winH = 0
    /\ rfW = 0 /\ rfH = 0
    /\ width = 0 /\ height = 0
    /\ stopped = FALSE
    /\ loopOk = TRUE
    /\ checkFailed = FALSE
    /\ frame = <<>>
    /\ failed = {}
    /\ shut = <<>>
    /\ finalUpdate = "none"
    /\ out = <<>>
    /\ terminated = FALSE
    /\ pending = 0
    /\ wpc = "idle"
    /\ observed = FALSE
    /\ lateProcess = FALSE
    /\ procAfterTerm = 0
    /\ sleepAfterTerm = 0
    /\ needSleep = FALSE
    /\ presentAfterCheck = FALSE
    /\ resized = <<>>
    /\ inflight = [c \in Channels |-> {}]
    /\ exitStatus = -1

\* ------------------------------------------------------------------- setup
\* main, lines 121-291: the checks that end main with `return 1`, in order
SetupChecks ==
    << [line |-> 125, call |-> "app.create"],
       [line |-> 129, call |-> "Window"],
       [line |-> 144, call |-> "window.create"],
       [line |-> 148, call |-> "Device"],
       [line |-> 156, call |-> "device.createTarget"],
       [line |-> 181, call |-> "pipeline.loadShaderGLSL.vertex"],
       [line |-> 182, call |-> "pipeline.loadShaderGLSL.fragment"],
       [line |-> 183, call |-> "pipeline.create"],
       [line |-> 253, call |-> "main_async.init"],
       [line |-> 257, call |-> "process_async.init"],
       [line |-> 266, call |-> "scene_manager.create"],
       [line |-> 288, call |-> "render_manager.create"] >>

SetupLines == { SetupChecks[i].line : i \in 1..Len(SetupChecks) }

\* the statement main runs after the check at `line` has passed
AfterCheck(line) ==
    CASE line = 266 -> 278
      [] line = 288 -> 493
      [] OTHER -> LET i == CHOOSE k \in 1..Len(SetupChecks) : SetupChecks[k].line = line
                  IN  SetupChecks[i + 1].line

\* `return 1` of main
Return1 ==
    /\ ret' = 1
    /\ pc' = 519

\* line 125: app.create succeeds; the application has a positive height
AppCreate ==
    /\ pc = 125
    /\ \E h \in 1..MaxHeight : appH' = h
    /\ pc' = AfterCheck(125)
    /\ UNCHANGED <<ret, winW, winH, rfW, rfH, width, height, frame, failed>>
    /\ UNCHANGED <<runVars, shutVars, workerVars>>
    /\ UNCHANGED <<resized, inflight, exitStatus>>

\* lines 128-131: the window exists and takes the application's size
WindowNew ==
    /\ pc = 129
    /\ \E w \in 1..MaxDim : winW' = w
    /\ winH' = appH
    /\ pc' = AfterCheck(129)
    /\ UNCHANGED <<ret, appH, rfW, rfH, width, height, frame, failed>>
    /\ UNCHANGED <<runVars, shutVars, workerVars>>
    /\ UNCHANGED <<resized, inflight, exitStatus>>

\* lines 144-257: a check of the setup passes
SetupCheck ==
    /\ pc \in SetupLines \ {125, 129, 266, 288}
    /\ pc' = AfterCheck(pc)
    /\ UNCHANGED <<ret, sizeVars, frame, failed>>
    /\ UNCHANGED <<runVars, shutVars, workerVars>>
    /\ UNCHANGED <<resized, inflight, exitStatus>>

\* line 266: the scene manager is created, with some streaming work to do
SceneManagerCreate ==
    /\ pc = 266
    /\ \E n \in 0..MaxPending : pending' = n
    /\ pc' = AfterCheck(266)
    /\ UNCHANGED <<ret, sizeVars, frame, failed, terminated, wpc, observed,
                   lateProcess, procAfterTerm, sleepAfterTerm, needSleep, out>>
    /\ UNCHANGED <<runVars, shutVars>>
    /\ UNCHANGED <<resized, inflight, exitStatus>>

\* lines 277-278: thread.start() starts process_callback
ThreadStart ==
    /\ pc = 278
    /\ wpc' = "test"
    /\ pc' = 288
    /\ UNCHANGED <<ret, sizeVars, frame, failed, terminated, pending, observed,
                   lateProcess, procAfterTerm, sleepAfterTerm, needSleep, out>>
    /\ UNCHANGED <<runVars, shutVars>>
    /\ UNCHANGED <<resized, inflight, exitStatus>>

\* lines 288-341: the render manager is created; the frame, the scene and the
\* graph are constructed and main reaches window.run
RenderManagerCreate ==
    /\ pc = 288
    /\ pc' = AfterCheck(288)
    /\ UNCHANGED <<ret, sizeVars, frame, failed>>
    /\ UNCHANGED <<runVars, shutVars, workerVars>>
    /\ UNCHANGED <<resized, inflight, exitStatus>>

\* a check of the setup fails: main returns 1
SetupFail ==
    /\ pc \in SetupLines
    /\ Return1
    /\ UNCHANGED <<sizeVars, frame, failed>>
    /\ UNCHANGED <<runVars, shutVars, workerVars>>
    /\ UNCHANGED <<resized, inflight, exitStatus>>

Setup ==
    \/ AppCreate
    \/ WindowNew
    \/ SetupCheck
    \/ SceneManagerCreate
    \/ ThreadStart
    \/ RenderManagerCreate
    \/ SetupFail

\* mutant: the node is committed to the scene after the spatial update
GraphCallsCommitLate ==
    << [line |-> 376, call |-> "node_object.setGlobalTransform"],
       [line |-> 377, call |-> "graph.updateSpatial"],
       [line |-> 378, call |-> "node_object.updateScene"],
       [line |-> 379, call |-> "graph.updateScene"] >>

\* --------------------------------------------------------------- main_loop
\* straight-line calls of main_loop, by phase, with the line of each call
GraphCalls ==
    << [line |-> 376, call |-> "node_object.setGlobalTransform"],
       [line |-> 377, call |-> "node_object.updateScene"],
       [line |-> 378, call |-> "graph.updateSpatial"],
       [line |-> 379, call |-> "graph.updateScene"] >>

SceneCalls ==
    << [line |-> 383, call |-> "scene.setTime"],
       [line |-> 384, call |-> "scene.update"] >>

\* mutant: the early compute object is not released (line 404 missing)
EarlyDispatchCallsUnreleased ==
    << [line |-> 392, call |-> "device.createCompute"],
       [line |-> 395, call |-> "scene_manager.dispatch"],
       [line |-> 396, call |-> "scene.dispatch"],
       [line |-> 400, call |-> "render_spatial.dispatchFrames"],
       [line |-> 401, call |-> "render_spatial.dispatchObjects"],
       [line |-> 402, call |-> "render_renderer.dispatchFrames"] >>

EarlyDispatchCalls ==
    << [line |-> 392, call |-> "device.createCompute"],
       [line |-> 395, call |-> "scene_manager.dispatch"],
       [line |-> 396, call |-> "scene.dispatch"],
       [line |-> 400, call |-> "render_spatial.dispatchFrames"],
       [line |-> 401, call |-> "render_spatial.dispatchObjects"],
       [line |-> 402, call |-> "render_renderer.dispatchFrames"],
       [line |-> 404, call |-> "compute.release"] >>

DeferredDrawCalls ==
    << [line |-> 410, call |-> "scene_manager.flush"],
       [line |-> 411, call |-> "render_manager.flush"],
       [line |-> 412, call |-> "render_frame.flush"],
       [line |-> 415, call |-> "render_renderer.drawDeferred"] >>

\* mutant: the composite pass is dispatched before the luminance pass
LateDispatchCallsReordered ==
    << [line |-> 420, call |-> "device.createCompute"],
       [line |-> 423, call |-> "render_renderer.dispatchLight"],
       [line |-> 424, call |-> "render_renderer.dispatchOccluder"],
       [line |-> 425, call |-> "render_renderer.dispatchComposite"],
       [line |-> 426, call |-> "render_renderer.dispatchLuminance"],
       [line |-> 428, call |-> "compute.release"] >>

LateDispatchCalls ==
    << [line |-> 420, call |-> "device.createCompute"],
       [line |-> 423, call |-> "render_renderer.dispatchLight"],
       [line |-> 424, call |-> "render_renderer.dispatchOccluder"],
       [line |-> 425, call |-> "render_renderer.dispatchLuminance"],
       [line |-> 426, call |-> "render_renderer.dispatchComposite"],
       [line |-> 428, call |-> "compute.release"] >>

InterfaceCalls ==
    << [line |-> 445, call |-> "rect.setTexture"],
       [line |-> 446, call |-> "rect.setTextureScale"],
       [line |-> 447, call |-> "rect.setTextureFlip"],
       [line |-> 450, call |-> "root.setViewport"],
       [line |-> 451, call |-> "root.setMouse"] >>

TargetCalls ==
    << [line |-> 460, call |-> "device.createCommand"],
       [line |-> 472, call |-> "command.setPipeline"],
       [line |-> 473, call |-> "command.setUniform"],
       [line |-> 474, call |-> "command.setVertices"],
       [line |-> 475, call |-> "command.setIndices"],
       [line |-> 476, call |-> "command.drawElements"],
       [line |-> 479, call |-> "canvas.draw"],
       [line |-> 481, call |-> "command.release"],
       [line |-> 483, call |-> "target.end"] >>

\* the render thread makes the next call of `calls` and goes on to the call
\* after it, or to line `exit` after the last one
Straight(calls, exit) ==
    \E i \in 1..Len(calls) :
        /\ pc = calls[i].line
        /\ frame' = Append(frame, calls[i].call)
        /\ pc' = IF i < Len(calls) THEN calls[i + 1].line ELSE exit

\* thread `th` is inside a call that was given the Async object `ch`
Busy(ch, th) == th \in inflight[ch]

\* thread `th` enters / leaves a call that was given the Async object `ch`
Submit(ch, th) == inflight' = [inflight EXCEPT ![ch] = @ \cup {th}]
Complete(ch, th) == inflight' = [inflight EXCEPT ![ch] = @ \ {th}]

\* the render thread enters the call of line `line`, which is given main_async
\* (lines 382, 387 and 503)
MainAsyncCall(line) ==
    /\ pc = line
    /\ ~Busy("main_async", "render")
    /\ Submit("main_async", "render")
    /\ UNCHANGED <<pc, ret, sizeVars, frame, failed, resized, exitStatus>>
    /\ UNCHANGED <<runVars, shutVars, workerVars>>

\* number of calls of `c` in the call sequence `s`
Count(s, c) == Cardinality({ i \in 1..Len(s) : s[i] = c })

\* mutant: the failure paths of main_loop return True
ReturnFalseAsTrue ==
    /\ loopOk' = TRUE
    /\ pc' = 493

\* `return False` of main_loop: control is back in window.run (line 493)
ReturnFalse ==
    /\ loopOk' = FALSE
    /\ pc' = 493

\* `return True` of main_loop, line 491
ReturnTrue ==
    /\ loopOk' = TRUE
    /\ pc' = 493

\* line 350: Window.update() processes the pending window events: resizes
\* (the last one decides the size) and the close / Esc callbacks (lines
\* 132-135) that call window.stop()
WindowUpdate ==
    /\ pc = 350
    /\ \E w \in Dims, h \in Dims : winW' = w /\ winH' = h
    /\ \E stop \in BOOLEAN : stopped' = (stopped \/ stop)
    /\ frame' = Append(frame, "Window.update")
    /\ pc' = 353
    /\ UNCHANGED <<ret, appH, rfW, rfH, width, height, failed, loopOk,
                   checkFailed, presentAfterCheck>>
    /\ UNCHANGED <<shutVars, workerVars>>
    /\ UNCHANGED <<resized, inflight, exitStatus>>

\* line 353: if not window.render(): return False
WindowRender ==
    /\ pc = 353
    /\ frame' = Append(frame, "window.render")
    /\ \E ok \in BOOLEAN :
        IF ok THEN pc' = 359 /\ UNCHANGED <<failed, loopOk>>
              ELSE failed' = failed \cup {"window.render"} /\ ReturnFalse
    /\ UNCHANGED <<ret, sizeVars, stopped, checkFailed, presentAfterCheck>>
    /\ UNCHANGED <<shutVars, workerVars>>
    /\ UNCHANGED <<resized, inflight, exitStatus>>

\* line 359: render_manager.update()
RenderManagerUpdate ==
    /\ pc = 359
    /\ frame' = Append(frame, "render_manager.update")
    /\ pc' = 362
    /\ UNCHANGED <<ret, sizeVars, failed>>
    /\ UNCHANGED <<runVars, shutVars, workerVars>>
    /\ UNCHANGED <<resized, inflight, exitStatus>>

\* mutant: the resize check compares the widths only
ResizeFrameWidthOnly ==
    /\ pc = 362
    /\ IF rfW # winW
       THEN \E ok \in BOOLEAN :
              IF ok
              THEN /\ rfW' = winW /\ rfH' = winH
                   /\ frame' = frame \o <<"render_frame.create", "Log.FrameResized">>
                   /\ resized' = <<winW, winH>>
                   /\ pc' = 367
                   /\ UNCHANGED <<failed, loopOk>>
              ELSE /\ UNCHANGED <<rfW, rfH, resized>>
                   /\ frame' = Append(frame, "render_frame.create")
                   /\ failed' = failed \cup {"render_frame.create"}
                   /\ ReturnFalse
       ELSE /\ pc' = 367
            /\ UNCHANGED <<rfW, rfH, frame, failed, loopOk, resized>>
    /\ UNCHANGED <<ret, appH, winW, winH, width, height, stopped, checkFailed,
                   presentAfterCheck>>
    /\ UNCHANGED <<shutVars, workerVars>>
    /\ UNCHANGED <<inflight, exitStatus>>

\* mutant: 'Frame Resized' is logged whether render_frame.create succeeded
\* or not
ResizeFrameLogsFailure ==
    /\ pc = 362
    /\ IF rfW # winW \/ rfH # winH
       THEN \E ok \in BOOLEAN :
              IF ok
              THEN /\ rfW' = winW /\ rfH' = winH
                   /\ frame' = frame \o <<"render_frame.create", "Log.FrameResized">>
                   /\ resized' = <<winW, winH>>
                   /\ pc' = 367
                   /\ UNCHANGED <<failed, loopOk>>
              ELSE /\ \E keep \in BOOLEAN :
                        IF keep THEN UNCHANGED <<rfW, rfH>>
                                ELSE rfW' = 0 /\ rfH' = 0
                   /\ resized' = <<winW, winH>>
                   /\ frame' = frame \o <<"render_frame.create", "Log.FrameResized">>
                   /\ failed' = failed \cup {"render_frame.create"}
                   /\ ReturnFalse
       ELSE /\ pc' = 367
            /\ UNCHANGED <<rfW, rfH, frame, failed, loopOk, resized>>
    /\ UNCHANGED <<ret, appH, winW, winH, width, height, stopped, checkFailed,
                   presentAfterCheck>>
    /\ UNCHANGED <<shutVars, workerVars>>
    /\ UNCHANGED <<inflight, exitStatus>>

\* lines 361-364: resize frame. render_frame.create is called only when the
\* frame's size differs from the window's; on success the frame has the
\* window's size and 'Frame Resized' is logged, on failure main_loop returns
\* False and the frame target is left as it was or left empty
ResizeFrame ==
    /\ pc = 362
    /\ IF rfW # winW \/ rfH # winH
       THEN \E ok \in BOOLEAN :
              IF ok
              THEN /\ rfW' = winW /\ rfH' = winH
                   /\ frame' = frame \o <<"render_frame.create", "Log.FrameResized">>
                   /\ resized' = <<winW, winH>>
                   /\ pc' = 367
                   /\ UNCHANGED <<failed, loopOk>>
              ELSE /\ \E keep \in BOOLEAN :
                        IF keep THEN UNCHANGED <<rfW, rfH>>
                                ELSE rfW' = 0 /\ rfH' = 0
                   /\ UNCHANGED resized
                   /\ frame' = Append(frame, "render_frame.create")
                   /\ failed' = failed \cup {"render_frame.create"}
                   /\ ReturnFalse
       ELSE /\ pc' = 367
            /\ UNCHANGED <<rfW, rfH, frame, failed, loopOk, resized>>
    /\ UNCHANGED <<ret, appH, winW, winH, width, height, stopped, checkFailed,
                   presentAfterCheck>>
    /\ UNCHANGED <<shutVars, workerVars>>
    /\ UNCHANGED <<inflight, exitStatus>>

\* lines 366-372: update diffuse texture, when texture_ifps seconds have
\* passed; the new texture is streaming work for the scene manager
UpdateTexture ==
    /\ pc = 367
    /\ \E due \in BOOLEAN :
        IF due
        THEN /\ frame' = frame \o <<"material.setTexture", "material.updateScene">>
             /\ pending' = IF pending < MaxPending THEN pending + 1 ELSE pending
        ELSE UNCHANGED <<frame, pending>>
    /\ pc' = 376
    /\ UNCHANGED <<ret, sizeVars, failed, terminated, wpc, observed, lateProcess,
                   procAfterTerm, sleepAfterTerm, needSleep, out>>
    /\ UNCHANGED <<runVars, shutVars>>
    /\ UNCHANGED <<resized, inflight, exitStatus>>

\* lines 374-379: update graph
UpdateGraph ==
    /\ Straight(GraphCalls, 382)
    /\ UNCHANGED <<ret, sizeVars, failed>>
    /\ UNCHANGED <<runVars, shutVars, workerVars>>
    /\ UNCHANGED <<resized, inflight, exitStatus>>

\* line 382: scene.create(device, main_async) is entered ...
SceneCreateCall == MainAsyncCall(382)

\* ... and returns: if not scene.create(device, main_async): return False
SceneCreate ==
    /\ pc = 382
    /\ Busy("main_async", "render")
    /\ Complete("main_async", "render")
    /\ frame' = Append(frame, "scene.create")
    /\ \E ok \in BOOLEAN :
        IF ok THEN pc' = 383 /\ UNCHANGED <<failed, loopOk>>
              ELSE failed' = failed \cup {"scene.create"} /\ ReturnFalse
    /\ UNCHANGED <<ret, sizeVars, stopped, checkFailed, presentAfterCheck>>
    /\ UNCHANGED <<shutVars, workerVars>>
    /\ UNCHANGED <<resized, exitStatus>>

\* lines 383-384: scene.setTime(time); scene.update()
UpdateScene ==
    /\ Straight(SceneCalls, 387)
    /\ UNCHANGED <<ret, sizeVars, failed>>
    /\ UNCHANGED <<runVars, shutVars, workerVars>>
    /\ UNCHANGED <<resized, inflight, exitStatus>>

\* mutant: the result of scene_manager.update is not acted upon
SceneManagerUpdateUnchecked ==
    /\ pc = 387
    /\ Busy("main_async", "render")
    /\ Complete("main_async", "render")
    /\ frame' = Append(frame, "scene_manager.update")
    /\ \E ok \in BOOLEAN :
        IF ok THEN UNCHANGED failed
              ELSE failed' = failed \cup {"scene_manager.update"}
    /\ pc' = 392
    /\ UNCHANGED <<ret, sizeVars, stopped, loopOk, checkFailed, presentAfterCheck>>
    /\ UNCHANGED <<shutVars, workerVars>>
    /\ UNCHANGED <<resized, exitStatus>>

\* line 387: scene_manager.update(device, main_async) is entered ...
SceneManagerUpdateCall == MainAsyncCall(387)

\* ... and returns: if not scene_manager.update(device, main_async): return False
SceneManagerUpdate ==
    /\ pc = 387
    /\ Busy("main_async", "render")
    /\ Complete("main_async", "render")
    /\ frame' = Append(frame, "scene_manager.update")
    /\ \E ok \in BOOLEAN :
        IF ok THEN pc' = 392 /\ UNCHANGED <<failed, loopOk>>
              ELSE failed' = failed \cup {"scene_manager.update"} /\ ReturnFalse
    /\ UNCHANGED <<ret, sizeVars, stopped, checkFailed, presentAfterCheck>>
    /\ UNCHANGED <<shutVars, workerVars>>
    /\ UNCHANGED <<resized, exitStatus>>

\* lines 389-404: dispatch (early compute scope)
EarlyDispatch ==
    /\ Straight(EarlyDispatchCalls, 410)
    /\ UNCHANGED <<ret, sizeVars, failed>>
    /\ UNCHANGED <<runVars, shutVars, workerVars>>
    /\ UNCHANGED <<resized, inflight, exitStatus>>

\* mutant: the draw block is left out and the late dispatch follows the early
DeferredDrawSkipped ==
    /\ pc = 410
    /\ pc' = 420
    /\ UNCHANGED <<ret, sizeVars, frame, failed>>
    /\ UNCHANGED <<runVars, shutVars, workerVars>>
    /\ UNCHANGED <<resized, inflight, exitStatus>>

\* lines 406-415: draw (flush buffers, draw deferred)
DeferredDraw ==
    /\ Straight(DeferredDrawCalls, 420)
    /\ UNCHANGED <<ret, sizeVars, failed>>
    /\ UNCHANGED <<runVars, shutVars, workerVars>>
    /\ UNCHANGED <<resized, inflight, exitStatus>>

\* lines 417-428: dispatch (late compute scope)
LateDispatch ==
    /\ Straight(LateDispatchCalls, 434)
    /\ UNCHANGED <<ret, sizeVars, failed>>
    /\ UNCHANGED <<runVars, shutVars, workerVars>>
    /\ UNCHANGED <<resized, inflight, exitStatus>>

\* mutant: the window's height and width change places
ViewportWidthSwapped(h, ww, wh) == (h * wh) \div ww

\* line 435: math.floor(height * window.getWidth() / window.getHeight()),
\* for positive integers whose product the float division represents exactly
ViewportWidth(h, ww, wh) == (h * ww) \div wh

\* lines 433-437: window size. The divisions by window.getHeight() (line
\* 435) and by window.getWidth() (line 436) raise ZeroDivisionError for a
\* zero-area window; the exception leaves main_loop, window.run and main and
\* is caught at the entry point (line 520)
WindowSize ==
    /\ pc = 434
    /\ IF winW = 0 \/ winH = 0
       THEN /\ pc' = 521
            /\ UNCHANGED <<width, height>>
       ELSE /\ height' = appH
            /\ width' = ViewportWidth(appH, winW, winH)
            /\ pc' = 445
    /\ UNCHANGED <<ret, appH, winW, winH, rfW, rfH, frame, failed>>
    /\ UNCHANGED <<runVars, shutVars, workerVars>>
    /\ UNCHANGED <<resized, inflight, exitStatus>>

\* lines 444-451: render texture, root.setViewport, root.setMouse
UpdateInterface ==
    /\ Straight(InterfaceCalls, 452)
    /\ UNCHANGED <<ret, sizeVars, failed>>
    /\ UNCHANGED <<runVars, shutVars, workerVars>>
    /\ UNCHANGED <<resized, inflight, exitStatus>>

\* line 452: while root.update(canvas.getScale(target)): pass
RootUpdate ==
    /\ pc = 452
    /\ frame' = Append(frame, "root.update")
    /\ \E again \in BOOLEAN :
        /\ again => Count(frame, "root.update") + 1 < MaxUpdates
        /\ pc' = IF again THEN 452 ELSE 455
    /\ UNCHANGED <<ret, sizeVars, failed>>
    /\ UNCHANGED <<runVars, shutVars, workerVars>>
    /\ UNCHANGED <<resized, inflight, exitStatus>>

\* line 455: canvas.create(device, target)
CanvasCreate ==
    /\ pc = 455
    /\ frame' = Append(frame, "canvas.create")
    /\ pc' = 458
    /\ UNCHANGED <<ret, sizeVars, failed>>
    /\ UNCHANGED <<runVars, shutVars, workerVars>>
    /\ UNCHANGED <<resized, inflight, exitStatus>>

\* mutant: the block of the window target is entered whatever target.begin()
\* returned
TargetBeginUnchecked ==
    /\ pc = 458
    /\ frame' = Append(frame, "target.begin")
    /\ \E ok \in BOOLEAN :
        IF ok THEN pc' = 460 /\ UNCHANGED failed
              ELSE pc' = 460 /\ failed' = failed \cup {"target.begin"}
    /\ UNCHANGED <<ret, sizeVars>>
    /\ UNCHANGED <<runVars, shutVars, workerVars>>
    /\ UNCHANGED <<resized, inflight, exitStatus>>

\* mutant: a failed target.begin() abandons the frame with `return False`
TargetBeginAbandons ==
    /\ pc = 458
    /\ frame' = Append(frame, "target.begin")
    /\ \E ok \in BOOLEAN :
        IF ok THEN pc' = 460 /\ UNCHANGED <<failed, loopOk>>
              ELSE failed' = failed \cup {"target.begin"} /\ ReturnFalse
    /\ UNCHANGED <<ret, sizeVars, stopped, checkFailed, presentAfterCheck>>
    /\ UNCHANGED <<shutVars, workerVars>>
    /\ UNCHANGED <<resized, inflight, exitStatus>>

\* line 458: if target.begin(): ...; a failed begin skips the block
TargetBegin ==
    /\ pc = 458
    /\ frame' = Append(frame, "target.begin")
    /\ \E ok \in BOOLEAN :
        IF ok THEN pc' = 460 /\ UNCHANGED failed
              ELSE pc' = 486 /\ failed' = failed \cup {"target.begin"}
    /\ UNCHANGED <<ret, sizeVars>>
    /\ UNCHANGED <<runVars, shutVars, workerVars>>
    /\ UNCHANGED <<resized, inflight, exitStatus>>

\* lines 460-483: the command of the window target, up to target.end()
WindowTarget ==
    /\ Straight(TargetCalls, 486)
    /\ UNCHANGED <<ret, sizeVars, failed>>
    /\ UNCHANGED <<runVars, shutVars, workerVars>>
    /\ UNCHANGED <<resized, inflight, exitStatus>>

\* line 486: if not window.present(): return False
WindowPresent ==
    /\ pc = 486
    /\ frame' = Append(frame, "window.present")
    /\ presentAfterCheck' = (presentAfterCheck \/ checkFailed)
    /\ \E ok \in BOOLEAN :
        IF ok THEN pc' = 489 /\ UNCHANGED <<failed, loopOk>>
              ELSE failed' = failed \cup {"window.present"} /\ ReturnFalse
    /\ UNCHANGED <<ret, sizeVars, stopped, checkFailed>>
    /\ UNCHANGED <<shutVars, workerVars>>
    /\ UNCHANGED <<resized, inflight, exitStatus>>

\* mutant: a failed device.check() does not end main_loop with False
DeviceCheckIgnored ==
    /\ pc = 489
    /\ frame' = Append(frame, "device.check")
    /\ \E ok \in BOOLEAN :
        IF ok THEN UNCHANGED <<failed, checkFailed>>
              ELSE /\ failed' = failed \cup {"device.check"}
                   /\ checkFailed' = TRUE
    /\ ReturnTrue
    /\ UNCHANGED <<ret, sizeVars, stopped, presentAfterCheck>>
    /\ UNCHANGED <<shutVars, workerVars>>
    /\ UNCHANGED <<resized, inflight, exitStatus>>

\* lines 489-491: if not device.check(): return False; return True
DeviceCheck ==
    /\ pc = 489
    /\ frame' = Append(frame, "device.check")
    /\ \E ok \in BOOLEAN :
        IF ok THEN ReturnTrue /\ UNCHANGED <<failed, checkFailed>>
              ELSE /\ failed' = failed \cup {"device.check"}
                   /\ checkFailed' = TRUE
                   /\ ReturnFalse
    /\ UNCHANGED <<ret, sizeVars, stopped, presentAfterCheck>>
    /\ UNCHANGED <<shutVars, workerVars>>
    /\ UNCHANGED <<resized, inflight, exitStatus>>

\* line 493: window.run(main_loop) calls main_loop again while the last call
\* returned True and window.stop() has not been called, and returns otherwise.
\* A new call of main_loop starts with no calls made and its locals unset;
\* when window.run returns there is no main_loop call any more
WindowRun ==
    /\ pc = 493
    /\ pc' = IF loopOk /\ ~stopped THEN 350 ELSE 496
    /\ frame' = <<>>
    /\ failed' = {}
    /\ width' = 0 /\ height' = 0
    /\ UNCHANGED <<ret, appH, winW, winH, rfW, rfH>>
    /\ UNCHANGED <<runVars, shutVars, workerVars>>
    /\ resized' = <<>>
    /\ UNCHANGED <<inflight, exitStatus>>

MainLoop ==
    \/ WindowUpdate
    \/ WindowRender
    \/ RenderManagerUpdate
    \/ ResizeFrame
    \/ UpdateTexture
    \/ UpdateGraph
    \/ SceneCreateCall
    \/ SceneCreate
    \/ UpdateScene
    \/ SceneManagerUpdateCall
    \/ SceneManagerUpdate
    \/ EarlyDispatch
    \/ DeferredDraw
    \/ LateDispatch
    \/ WindowSize
    \/ UpdateInterface
    \/ RootUpdate
    \/ CanvasCreate
    \/ TargetBegin
    \/ WindowTarget
    \/ WindowPresent
    \/ DeviceCheck

\* ---------------------------------------------------------------- shutdown
\* a call of the shutdown sequence (lines 495-507) is recorded in `shut`
ShutdownCall(line, call, next) ==
    /\ pc = line
    /\ shut' = Append(shut, call)
    /\ pc' = next

\* line 496: scene_manager.terminate()
Terminate ==
    /\ ShutdownCall(496, "scene_manager.terminate", 499)
    /\ terminated' = TRUE
    /\ UNCHANGED <<ret, sizeVars, frame, failed, finalUpdate, pending, wpc,
                   observed, lateProcess, procAfterTerm, sleepAfterTerm,
                   needSleep, out>>
    /\ UNCHANGED runVars
    /\ UNCHANGED <<resized, inflight, exitStatus>>

\* line 499: window.finish()
FinishContext ==
    /\ ShutdownCall(499, "window.finish", 502)
    /\ UNCHANGED <<ret, sizeVars, frame, failed, finalUpdate>>
    /\ UNCHANGED <<runVars, workerVars>>
    /\ UNCHANGED <<resized, inflight, exitStatus>>

\* line 502: scene.clear()
SceneClear ==
    /\ ShutdownCall(502, "scene.clear", 503)
    /\ UNCHANGED <<ret, sizeVars, frame, failed, finalUpdate>>
    /\ UNCHANGED <<runVars, workerVars>>
    /\ UNCHANGED <<resized, inflight, exitStatus>>

\* mutant: main returns 1 when the scene_manager.update of the shutdown fails
FinalUpdateChecked ==
    /\ pc = 503
    /\ Busy("main_async", "render")
    /\ Complete("main_async", "render")
    /\ shut' = Append(shut, "scene_manager.update")
    /\ \E ok \in BOOLEAN :
        /\ finalUpdate' = IF ok THEN "ok" ELSE "failed"
        /\ IF ok THEN pc' = 504 /\ UNCHANGED ret
                 ELSE Return1
    /\ UNCHANGED <<sizeVars, frame, failed>>
    /\ UNCHANGED <<runVars, workerVars>>
    /\ UNCHANGED <<resized, exitStatus>>

\* line 503: scene_manager.update(device, main_async) is entered ...
FinalUpdateCall == MainAsyncCall(503)

\* ... and returns; the result is not used
FinalUpdate ==
    /\ ShutdownCall(503, "scene_manager.update", 504)
    /\ Busy("main_async", "render")
    /\ Complete("main_async", "render")
    /\ \E ok \in BOOLEAN : finalUpdate' = IF ok THEN "ok" ELSE "failed"
    /\ UNCHANGED <<ret, sizeVars, frame, failed>>
    /\ UNCHANGED <<runVars, workerVars>>
    /\ UNCHANGED <<resized, exitStatus>>

\* line 504: window.finish()
FinishAgain ==
    /\ ShutdownCall(504, "window.finish", 507)
    /\ UNCHANGED <<ret, sizeVars, frame, failed, finalUpdate>>
    /\ UNCHANGED <<runVars, workerVars>>
    /\ UNCHANGED <<resized, inflight, exitStatus>>

\* line 507: thread.join() is called ...
JoinCall ==
    /\ Count(shut, "thread.join") = 0
    /\ ShutdownCall(507, "thread.join", 507)
    /\ UNCHANGED <<ret, sizeVars, frame, failed, finalUpdate>>
    /\ UNCHANGED <<runVars, workerVars>>
    /\ UNCHANGED <<resized, inflight, exitStatus>>

\* mutant: main goes on without waiting for process_callback to return
JoinNoWait ==
    /\ pc = 507
    /\ Count(shut, "thread.join") > 0
    /\ pc' = 510
    /\ UNCHANGED <<ret, sizeVars, frame, failed>>
    /\ UNCHANGED <<runVars, shutVars, workerVars>>
    /\ UNCHANGED <<resized, inflight, exitStatus>>

\* ... and returns when process_callback has returned
JoinReturn ==
    /\ pc = 507
    /\ Count(shut, "thread.join") > 0
    /\ wpc = "done"
    /\ pc' = 510
    /\ UNCHANGED <<ret, sizeVars, frame, failed>>
    /\ UNCHANGED <<runVars, shutVars, workerVars>>
    /\ UNCHANGED <<resized, inflight, exitStatus>>

\* line 510: Log.print('Done\n')
LogDone ==
    /\ pc = 510
    /\ out' = Append(out, "Done")
    /\ pc' = 512
    /\ UNCHANGED <<ret, sizeVars, frame, failed, terminated, pending, wpc,
                   observed, lateProcess, procAfterTerm, sleepAfterTerm, needSleep>>
    /\ UNCHANGED <<runVars, shutVars>>
    /\ UNCHANGED <<resized, inflight, exitStatus>>

\* line 512: return 0
Return0 ==
    /\ pc = 512
    /\ ret' = 0
    /\ pc' = 519
    /\ UNCHANGED <<sizeVars, frame, failed>>
    /\ UNCHANGED <<runVars, shutVars, workerVars>>
    /\ UNCHANGED <<resized, inflight, exitStatus>>

Shutdown ==
    \/ Terminate
    \/ FinishContext
    \/ SceneClear
    \/ FinalUpdateCall
    \/ FinalUpdate
    \/ FinishAgain
    \/ JoinCall
    \/ JoinReturn
    \/ LogDone
    \/ Return0

\* ------------------------------------------------- worker: process_callback
\* mutant: the loop tests the flag after the process call instead of before it
WorkerTestLate ==
    /\ wpc = "test"
    /\ observed' = (observed \/ terminated)
    /\ wpc' = IF observed THEN "log" ELSE "process"
    /\ UNCHANGED <<pc, ret, sizeVars, frame, failed, terminated, pending,
                   lateProcess, procAfterTerm, sleepAfterTerm, needSleep, out>>
    /\ UNCHANGED <<runVars, shutVars>>
    /\ UNCHANGED <<resized, inflight, exitStatus>>

\* line 273: while scene_manager and not scene_manager.isTerminated()
\* (scene_manager was created at line 266 and is not destroyed by main)
WorkerTest ==
    /\ wpc = "test"
    /\ IF terminated
       THEN /\ observed' = TRUE
            /\ wpc' = "log"
       ELSE /\ wpc' = "process"
            /\ UNCHANGED observed
    /\ UNCHANGED <<pc, ret, sizeVars, frame, failed, terminated, pending,
                   lateProcess, procAfterTerm, sleepAfterTerm, needSleep, out>>
    /\ UNCHANGED <<runVars, shutVars>>
    /\ UNCHANGED <<resized, inflight, exitStatus>>

\* mutant: the worker gives scene_manager.process the Async object of the
\* render thread
WorkerCallOnMain ==
    /\ wpc = "process"
    /\ ~Busy("main_async", "worker")
    /\ Submit("main_async", "worker")
    /\ lateProcess' = (lateProcess \/ observed)
    /\ procAfterTerm' = IF terminated /\ procAfterTerm < 2
                        THEN procAfterTerm + 1 ELSE procAfterTerm
    /\ UNCHANGED <<pc, ret, sizeVars, frame, failed, terminated, pending, wpc,
                   observed, sleepAfterTerm, needSleep, out>>
    /\ UNCHANGED <<runVars, shutVars>>
    /\ UNCHANGED <<resized, exitStatus>>

\* line 274: scene_manager.process(process_async) is entered ...
WorkerCall ==
    /\ wpc = "process"
    /\ ~Busy("process_async", "worker")
    /\ Submit("process_async", "worker")
    /\ lateProcess' = (lateProcess \/ observed)
    /\ procAfterTerm' = IF terminated /\ procAfterTerm < 2
                        THEN procAfterTerm + 1 ELSE procAfterTerm
    /\ UNCHANGED <<pc, ret, sizeVars, frame, failed, terminated, pending, wpc,
                   observed, sleepAfterTerm, needSleep, out>>
    /\ UNCHANGED <<runVars, shutVars>>
    /\ UNCHANGED <<resized, exitStatus>>

\* ... and returns True after it has made streaming progress, or False
\* (nothing to do, or a transient failure)
WorkerProcess ==
    /\ wpc = "process"
    /\ Busy("process_async", "worker")
    /\ Complete("process_async", "worker")
    /\ \E ok \in BOOLEAN :
        /\ ok => pending > 0
        /\ IF ok
           THEN /\ pending' = pending - 1
                /\ wpc' = "test"
                /\ UNCHANGED needSleep
           ELSE /\ wpc' = "sleep"
                /\ needSleep' = TRUE
                /\ UNCHANGED pending
    /\ UNCHANGED <<pc, ret, sizeVars, frame, failed, terminated, observed,
                   lateProcess, procAfterTerm, sleepAfterTerm, out>>
    /\ UNCHANGED <<runVars, shutVars>>
    /\ UNCHANGED <<resized, exitStatus>>

\* mutant: after the sleep the worker calls scene_manager.process again
\* without testing isTerminated()
WorkerSleepRetry ==
    /\ wpc = "sleep"
    /\ sleepAfterTerm' = IF terminated /\ sleepAfterTerm < 2
                         THEN sleepAfterTerm + 1 ELSE sleepAfterTerm
    /\ needSleep' = FALSE
    /\ wpc' = "process"
    /\ UNCHANGED <<pc, ret, sizeVars, frame, failed, terminated, pending,
                   observed, lateProcess, procAfterTerm, out>>
    /\ UNCHANGED <<runVars, shutVars>>
    /\ UNCHANGED <<resized, inflight, exitStatus>>

\* line 274: Time.sleep(1000) after an unsuccessful process call
WorkerSleep ==
    /\ wpc = "sleep"
    /\ sleepAfterTerm' = IF terminated /\ sleepAfterTerm < 2
                         THEN sleepAfterTerm + 1 ELSE sleepAfterTerm
    /\ needSleep' = FALSE
    /\ wpc' = "test"
    /\ UNCHANGED <<pc, ret, sizeVars, frame, failed, terminated, pending,
                   observed, lateProcess, procAfterTerm, out>>
    /\ UNCHANGED <<runVars, shutVars>>
    /\ UNCHANGED <<resized, inflight, exitStatus>>

\* line 275: Log.print(Log.Message, 'Thread Done\n'); process_callback returns
WorkerDone ==
    /\ wpc = "log"
    /\ out' = Append(out, "Thread Done")
    /\ wpc' = "done"
    /\ UNCHANGED <<pc, ret, sizeVars, frame, failed, terminated, pending,
                   observed, lateProcess, procAfterTerm, sleepAfterTerm, needSleep>>
    /\ UNCHANGED <<runVars, shutVars>>
    /\ UNCHANGED <<resized, inflight, exitStatus>>

Worker ==
    \/ WorkerTest
    \/ WorkerCall
    \/ WorkerProcess
    \/ WorkerSleep
    \/ WorkerDone

\* ------------------------------------------------------------- entry point
\* lines 517-521: exit(main(sys.argv)) raises SystemExit with the value main
\* returned; an exception of main is printed and the script ends normally
\* (status 0). Either way the interpreter first waits for the worker, which
\* is not a daemon thread, and then the process terminates
ProcessExit ==
    /\ pc \in {519, 521}
    /\ exitStatus = -1
    /\ wpc \in {"idle", "done"}
    /\ exitStatus' = IF pc = 519 THEN ret ELSE 0
    /\ UNCHANGED <<pc, ret, sizeVars, frame, failed, resized, inflight>>
    /\ UNCHANGED <<runVars, shutVars, workerVars>>

\* ---------------------------------------------------------- specifications
Next ==
    \/ Setup
    \/ WindowRun
    \/ MainLoop
    \/ Shutdown
    \/ Worker
    \/ ProcessExit

Spec == Init /\ [][Next]_vars

\* the render thread is not suspended for ever: window.run acts on the result
\* of main_loop and main runs its straight-line shutdown code; and the
\* operating system keeps scheduling the worker thread; the interpreter
\* exits once nothing keeps it
LiveSpec ==
    /\ Spec
    /\ WF_vars(WindowRun) /\ WF_vars(Shutdown) /\ WF_vars(Worker)
    /\ WF_vars(ProcessExit)

TypeOK ==
    /\ ret \in {-1, 0, 1}
    /\ appH \in 0..MaxHeight /\ winW \in Dims /\ winH \in Dims \cup 1..MaxHeight
    /\ rfW \in Dims /\ rfH \in Dims \cup 1..MaxHeight
    /\ pending \in 0..MaxPending
    /\ wpc \in {"idle", "test", "process", "sleep", "log", "done"}
    /\ stopped \in BOOLEAN /\ loopOk \in BOOLEAN /\ terminated \in BOOLEAN
    /\ resized \in {<<>>} \cup (Dims \X (Dims \cup 1..MaxHeight))
    /\ inflight \in [Channels -> SUBSET {"render", "worker"}]
    /\ exitStatus \in {-1, 0, 1}

\* ================================================================== claims
\* ------------------------------------------------------------------ helpers
IsPrefix(s, t) == Len(s) <= Len(t) /\ \A i \in 1..Len(s) : s[i] = t[i]

\* `s` without the elements that are not in `set`
Only(s, set) == SelectSeq(s, LAMBDA c : c \in set)

\* `s` with every run of equal consecutive elements reduced to one element
RECURSIVE Collapse(_)
Collapse(s) ==
    IF Len(s) <= 1 THEN s
    ELSE LET r == Collapse(Tail(s))
         IN  IF Head(s) = Head(r) THEN r ELSE <<Head(s)>> \o r

\* positions of the call `c` in `s`
At(s, c) == { i \in 1..Len(s) : s[i] = c }

\* every call of `a` in `s` comes before every call of `b`
Before(s, a, b) == \A i \in At(s, a), j \in At(s, b) : i < j

SceneUpdateSet ==
    {"render_manager.update", "render_frame.create", "Log.FrameResized",
     "material.setTexture", "material.updateScene", "scene.create",
     "scene_manager.update"}
        \cup { GraphCalls[i].call : i \in 1..Len(GraphCalls) }
        \cup { SceneCalls[i].call : i \in 1..Len(SceneCalls) }
EarlyDispatchSet ==
    {"scene_manager.dispatch", "scene.dispatch", "render_spatial.dispatchFrames",
     "render_spatial.dispatchObjects", "render_renderer.dispatchFrames"}
DeferredDrawSet ==
    {"scene_manager.flush", "render_manager.flush", "render_frame.flush",
     "render_renderer.drawDeferred"}
LateDispatchSet ==
    {"render_renderer.dispatchLight", "render_renderer.dispatchOccluder",
     "render_renderer.dispatchLuminance", "render_renderer.dispatchComposite"}
UIUpdateSet ==
    {"rect.setTexture", "rect.setTextureScale", "rect.setTextureFlip",
     "root.setViewport", "root.setMouse", "root.update", "canvas.create"}
PresentSet == {"window.present"}

DispatchCalls == EarlyDispatchSet \cup LateDispatchSet
DrawCalls == {"render_renderer.drawDeferred", "command.drawElements", "canvas.draw"}

PhaseOf(c) ==
    CASE c \in SceneUpdateSet   -> "SceneUpdate"
      [] c \in EarlyDispatchSet -> "EarlyDispatch"
      [] c \in DeferredDrawSet  -> "DeferredDraw"
      [] c \in LateDispatchSet  -> "LateDispatch"
      [] c \in UIUpdateSet      -> "UIUpdate"
      [] c \in PresentSet       -> "Present"
      [] OTHER                  -> "none"

\* the phases the calls of `s` belong to, in the order they were entered
Phases(s) ==
    LET ps == [i \in 1..Len(s) |-> PhaseOf(s[i])]
    IN  Collapse(SelectSeq(ps, LAMBDA ph : ph # "none"))

PhaseOrder ==
    <<"SceneUpdate", "EarlyDispatch", "DeferredDraw", "LateDispatch",
      "UIUpdate", "Present">>

\* the calls every complete frame makes exactly once
OncePerFrame ==
    (SceneUpdateSet \ {"render_frame.create", "Log.FrameResized",
                       "material.setTexture", "material.updateScene"})
        \cup EarlyDispatchSet \cup DeferredDrawSet \cup LateDispatchSet
        \cup (UIUpdateSet \ {"root.update"}) \cup PresentSet

\* C1: at every point of an iteration of main_loop the phases entered so far
\* are an initial part of SceneUpdate, EarlyDispatch, DeferredDraw,
\* LateDispatch, UIUpdate, Present (so no phase starts before the previous one
\* has finished and none is entered twice), and an iteration that has reached
\* window.present() has run all six, each of their calls exactly once
C1_PhaseOrder ==
    /\ IsPrefix(Phases(frame), PhaseOrder)
    /\ Count(frame, "window.present") > 0 =>
          /\ Phases(frame) = PhaseOrder
          /\ \A c \in OncePerFrame : Count(frame, c) = 1
          /\ Count(frame, "root.update") >= 1

\* a frame that was resized, updated the interface twice and drew into the
\* window target has presented
C1_Witness ==
    /\ pc = 489
    /\ Count(frame, "window.present") = 1
    /\ Count(frame, "render_frame.create") = 1
    /\ Count(frame, "root.update") = 2
    /\ Count(frame, "target.end") = 1

UpdateFailures == {"render_frame.create", "scene.create", "scene_manager.update"}

\* C2: in an iteration in which render_frame.create, scene.create or
\* scene_manager.update has reported failure, no dispatch call, no draw call
\* and no window.present() call has been made
C2_FailedUpdateAbandonsFrame ==
    failed \cap UpdateFailures # {} =>
        \A i \in 1..Len(frame) :
            frame[i] \notin DispatchCalls \cup DrawCalls \cup {"window.present"}

\* scene_manager.update has failed and main_loop has returned
C2_Witness ==
    /\ pc = 493
    /\ "scene_manager.update" \in failed
    /\ Count(frame, "scene_manager.update") = 1

LoopLines == 350..491
ShutdownLines == 496..512

\* the statement of the original C3: after render_frame.create, scene.create
\* or scene_manager.update has failed, and without a stop request, window.run
\* goes on to the next iteration of main_loop
C3_Original ==
    [][(pc = 493 /\ failed \cap UpdateFailures # {} /\ ~stopped /\ pc' # pc)
          => pc' = 350]_vars

\* C3 (amended): a failure of render_frame.create, scene.create or
\* scene_manager.update makes main_loop return False, and that ends the frame
\* loop like a stop request does: window.run returns to the shutdown sequence
\* (line 496) without another iteration, so the failed operation is not
\* retried; and once the loop has ended main_loop is never entered again
C3_FailureEndsLoop ==
    [][/\ (failed \cap UpdateFailures # {}) =>
              (~loopOk /\ pc = 493 /\ pc' \in {493, 496})
       /\ (pc \notin LoopLines \cup {493} /\ pc >= 493) => pc' \notin LoopLines]_vars

\* render_frame.create has failed, without a stop request, and main_loop has
\* returned False to window.run
C3_Witness ==
    /\ pc = 493
    /\ "render_frame.create" \in failed
    /\ ~loopOk
    /\ ~stopped

ShutdownOrder ==
    <<"scene_manager.terminate", "window.finish", "scene.clear",
      "scene_manager.update", "window.finish", "thread.join">>

\* C4: the calls of the shutdown sequence are made only after window.run has
\* returned, in the order terminate, finish, clear, update, finish, join, each
\* once; the sequence is never left before thread.join() has been called,
\* whatever the final scene_manager.update returned, and it is complete when
\* main returns 0
C4_ShutdownOrder ==
    /\ IsPrefix(shut, ShutdownOrder)
    /\ shut # <<>> => pc \in ShutdownLines \cup {519}
    /\ pc \in ShutdownLines => Len(shut) =
          (CASE pc = 496 -> 0 [] pc = 499 -> 1 [] pc = 502 -> 2 [] pc = 503 -> 3
             [] pc = 504 -> 4 [] pc = 507 -> IF Len(shut) = 5 THEN 5 ELSE 6
             [] OTHER -> 6)
    /\ (pc = 519 /\ ret = 0) => shut = ShutdownOrder
    /\ (pc = 519 /\ ret # 0) => shut = <<>>
    /\ finalUpdate # "none" <=> Len(shut) >= 4

\* the final scene_manager.update has failed and thread.join() has returned
C4_Witness ==
    /\ pc = 510
    /\ finalUpdate = "failed"
    /\ shut = ShutdownOrder

\* C5: (a) thread.join() has been called only if scene_manager.terminate()
\* was called before it; (b) a worker whose loop test has seen isTerminated()
\* true has left the loop and has made no scene_manager.process call since
C5_TerminateBeforeJoin ==
    /\ Count(shut, "thread.join") > 0 =>
          /\ terminated
          /\ Before(shut, "scene_manager.terminate", "thread.join")
          /\ Count(shut, "scene_manager.terminate") = 1
    /\ ~lateProcess
    /\ observed => terminated /\ wpc \in {"log", "done"}

\* the worker has seen the flag and returned, and main has called join
C5_Witness ==
    /\ observed
    /\ wpc = "done"
    /\ Count(shut, "thread.join") = 1
    /\ procAfterTerm = 1

Done ==
    /\ pc = 519
    /\ ret = 0
    /\ out = <<"Thread Done", "Done">>

\* C6: under fair scheduling, once scene_manager.terminate() has been called
\* the worker logs 'Thread Done', thread.join() returns and main prints 'Done'
\* and returns 0; 'Done' is never printed before 'Thread Done'; and the
\* worker leaves its loop only after it has seen the terminated flag
C6_CleanExit ==
    /\ terminated ~> Done
    /\ [](Count(out, "Done") > 0 => out = <<"Thread Done", "Done">>)
    /\ [](wpc \in {"log", "done"} => terminated /\ observed)
    /\ [](pc \in {510, 512} => wpc = "done")

\* main has returned 0 after a run in which the worker slept after terminate()
C6_Witness ==
    /\ Done
    /\ sleepAfterTerm = 1
    /\ wpc = "done"

\* C7: whatever the window was resized to (zero-area sizes included), a frame
\* that is past the resize check, and so every frame that reaches the early
\* dispatch, has a render_frame of the window's current size; when the sizes
\* already agree at the check, render_frame.create is not called and the
\* frame target is left as it is; and the frame target changes at the resize
\* check only
C7_FrameMatchesWindow ==
    /\ [](pc \in 367..489 => rfW = winW /\ rfH = winH)
    /\ [][(pc = 362 /\ pc' # pc /\ rfW = winW /\ rfH = winH) =>
             (frame' = frame /\ rfW' = rfW /\ rfH' = rfH /\ pc' = 367)]_vars
    /\ [][(rfW' # rfW \/ rfH' # rfH) =>
             (pc = 362 /\ Count(frame', "render_frame.create") = 1)]_vars

\* a frame whose window was resized to a zero-area size has reached the early
\* dispatch with a recreated frame target
C7_Witness ==
    /\ pc = 392
    /\ winW = 0 /\ winH = 2
    /\ rfW = 0 /\ rfH = 2
    /\ Count(frame, "render_frame.create") = 1

LateOrder ==
    <<"render_renderer.dispatchLight", "render_renderer.dispatchOccluder",
      "render_renderer.dispatchLuminance", "render_renderer.dispatchComposite">>

\* C8: the late passes of a frame are dispatched in the order dispatchLight,
\* dispatchOccluder, dispatchLuminance, dispatchComposite, each once, after
\* the frame's drawDeferred and before any call of the interface update, and
\* no dispatch of the frame follows dispatchComposite
C8_LatePassOrder ==
    /\ IsPrefix(Only(frame, LateDispatchSet), LateOrder)
    /\ Count(frame, "compute.release") = 2 => Only(frame, LateDispatchSet) = LateOrder
    /\ \A c \in LateDispatchSet :
          /\ Count(frame, c) > 0 => Count(frame, "render_renderer.drawDeferred") = 1
          /\ Before(frame, "render_renderer.drawDeferred", c)
          /\ \A u \in UIUpdateSet :
                /\ Before(frame, c, u)
                /\ Count(frame, u) > 0 => Count(frame, c) = 1
    /\ \A d \in DispatchCalls \ {"render_renderer.dispatchComposite"} :
          Before(frame, d, "render_renderer.dispatchComposite")

\* the late compute scope of a frame has been released
C8_Witness ==
    /\ pc = 434
    /\ Only(frame, LateDispatchSet) = LateOrder
    /\ Count(frame, "compute.release") = 2

\* C9: once device.check() has failed the render thread is outside main_loop
\* for good, window.present() is not called again, and under fair scheduling
\* the shutdown sequence (terminate, finish, clear, update, finish, join) is
\* run, once, before main returns
C9_CheckFailureShutsDown ==
    /\ [](checkFailed =>
            /\ pc \notin LoopLines
            /\ ~presentAfterCheck
            /\ IsPrefix(shut, ShutdownOrder))
    /\ [][checkFailed => Count(frame', "window.present") <= Count(frame, "window.present")]_vars
    /\ checkFailed ~> (pc = 519 /\ shut = ShutdownOrder)

\* main has returned after device.check() failed, without any stop request
C9_Witness ==
    /\ checkFailed
    /\ ~stopped
    /\ pc = 519
    /\ shut = ShutdownOrder

\* C10: when main has returned after the frame loop ended because
\* device.check() returned false, the exit status main returned is not 0;
\* it is 0 when the loop ended because of a stop request
C10_ExitStatus ==
    /\ (pc = 519 /\ checkFailed) => ret # 0
    /\ (pc = 519 /\ stopped /\ loopOk) => ret = 0

\* calls that record a draw command on the presentation target
TargetDrawSet == {"command.drawElements", "canvas.draw"}

\* target.begin() has been called in this frame and has returned true
BeginOk == Count(frame, "target.begin") = 1 /\ "target.begin" \notin failed

\* C11: in every frame target.begin() is called at most once; a draw command
\* on the presentation target (drawElements, canvas.draw) is recorded only
\* after a successful target.begin() and before target.end(), on the one
\* command created after that begin; once the target block is behind,
\* target.end() has been called exactly when target.begin() succeeded; and a
\* failed target.begin() records no command at all, goes on to
\* window.present() and by itself leaves main_loop returning True
C11_PresentationBracket ==
    /\ [](Count(frame, "target.begin") <= 1)
    /\ [](Count(frame, "device.createCommand") <= 1)
    /\ [](Count(frame, "target.end") <= 1)
    /\ [](\A i \in 1..Len(frame) : frame[i] \in TargetDrawSet =>
            /\ BeginOk
            /\ \E b \in At(frame, "target.begin"), c \in At(frame, "device.createCommand") :
                  b < c /\ c < i
            /\ \A e \in At(frame, "target.end") : i < e)
    /\ [](\A c \in TargetDrawSet : Count(frame, c) <= 1)
    /\ [](pc \in {486, 489, 493} =>
            /\ Count(frame, "target.end") = 1 <=> BeginOk
            /\ BeginOk => /\ Count(frame, "device.createCommand") = 1
                          /\ \A c \in TargetDrawSet : Count(frame, c) = 1)
    /\ []("target.begin" \in failed =>
            \A i \in 1..Len(frame) :
                frame[i] \notin TargetDrawSet \cup {"device.createCommand", "target.end"})
    /\ []((pc = 493 /\ failed = {"target.begin"}) => loopOk)
    /\ [][(pc = 458 /\ "target.begin" \in failed') =>
             (pc' = 486 /\ loopOk' = loopOk)]_vars

\* main_loop has returned True from a frame whose target.begin() failed
C11_Witness ==
    /\ pc = 493
    /\ failed = {"target.begin"}
    /\ loopOk
    /\ Count(frame, "window.present") = 1
    /\ Count(frame, "device.check") = 1

\* C12 as stated: in a frame whose target.begin() returned false
\* window.present() is not called
C12_Original ==
    "target.begin" \in failed => Count(frame, "window.present") = 0

\* C12: a frame whose target.begin() returned false skips only the block of
\* the window target: window.present() is the next call and device.check()
\* follows it; main_loop returns True exactly when both succeed, and then
\* window.run starts the next frame unless a stop was requested
C12_BeginFailurePresents ==
    /\ [][(pc = 458 /\ "target.begin" \in failed') =>
             (pc' = 486 /\ frame' = Append(frame, "target.begin"))]_vars
    /\ [][(pc = 486 /\ pc' # pc /\ "target.begin" \in failed) =>
             frame' = Append(frame, "window.present")]_vars
    /\ [](("target.begin" \in failed /\ pc \in {489, 493}) =>
             Count(frame, "window.present") = 1)
    /\ [](("target.begin" \in failed /\ pc = 493) =>
             (loopOk <=> failed = {"target.begin"}))
    /\ [][(pc = 493 /\ pc' # pc /\ "target.begin" \in failed) =>
             (pc' = 350 <=> (failed = {"target.begin"} /\ ~stopped))]_vars

\* window.present() has been called and has succeeded in a frame whose
\* target.begin() returned false
C12_Witness ==
    /\ pc = 489
    /\ failed = {"target.begin"}
    /\ Count(frame, "window.present") = 1
    /\ Count(frame, "target.end") = 0

\* C13: a failed setup check makes main return 1 without window.run having
\* been entered (no frame call, no shutdown call), and the process then
\* terminates with exit status 1
C13_SetupFailureExits ==
    /\ [](ret = 1 => pc = 519 /\ shut = <<>> /\ frame = <<>> /\ ~terminated)
    /\ [](exitStatus = 1 => ret = 1)
    /\ (pc = 519 /\ ret = 1) ~> (exitStatus = 1)

\* largest dimension for which the width formula is compared with the floor
MaxViewport == 12

\* w is the floor of h * ww / wh
IsFloor(w, h, ww, wh) == w * wh <= h * ww /\ h * ww < (w + 1) * wh

\* the width formula gives the floor for all small positive dimensions, and
\* the widths of the two scenarios
ViewportWidthIsFloor ==
    /\ \A h \in 1..MaxViewport, ww \in 1..MaxViewport, wh \in 1..MaxViewport :
          IsFloor(ViewportWidth(h, ww, wh), h, ww, wh)
    /\ ViewportWidth(1080, 1920, 1080) = 1920
    /\ ViewportWidth(900, 1280, 720) = 1600

\* C14: in a frame that is past the window-size step, with a window of
\* positive dimensions (winW, winH) and an application height appH, the
\* viewport height is appH and the viewport width is floor(appH * winW / winH);
\* the width formula gives the floor for all small positive dimensions, 1920
\* for (1920, 1080, 1080) and 1600 for (1280, 720, 900)
C14_ViewportWidth ==
    /\ pc \in 445..489 =>
          /\ winW > 0 /\ winH > 0 /\ appH > 0
          /\ height = appH
          /\ IsFloor(width, appH, winW, winH)
    /\ ViewportWidthIsFloor

\* the viewport of a window that is taller than wide: the quotient
\* 1 * 1 / 2 has been rounded down to 0
C14_Witness ==
    /\ pc = 445
    /\ appH = 1 /\ winW = 1 /\ winH = 2
    /\ height = 1
    /\ width = 0

\* C15: in every interleaving at most one call is in flight on each Async
\* object: main_async is held by the render thread only, inside scene.create
\* (line 382) or scene_manager.update (lines 387 and 503); process_async is
\* held by the worker only, inside scene_manager.process; and a call is
\* entered on an Async object only when none is in flight on it, so the calls
\* on one object complete in the order they were made
C15_OneInFlight ==
    /\ [](\A ch \in Channels : Cardinality(inflight[ch]) <= 1)
    /\ [](inflight["main_async"] \subseteq {"render"})
    /\ [](inflight["process_async"] \subseteq {"worker"})
    /\ [](Busy("main_async", "render") => pc \in {382, 387, 503})
    /\ [](Busy("process_async", "worker") => wpc = "process")
    /\ [][\A ch \in Channels : inflight'[ch] # inflight[ch] =>
             (inflight[ch] = {} \/ inflight'[ch] = {})]_vars

\* the final scene_manager.update of the render thread and a
\* scene_manager.process call of the worker are in flight together
C15_Witness ==
    /\ pc = 503
    /\ wpc = "process"
    /\ inflight = [ch \in Channels |->
                      IF ch = "main_async" THEN {"render"} ELSE {"worker"}]

\* the calls that commit a change to the scene
CommitSet == {"node_object.updateScene", "graph.updateScene"}

\* the graph, scene and scene-manager calls of a frame, in the order of the
\* code
GraphSceneOrder ==
    <<"node_object.setGlobalTransform", "node_object.updateScene",
      "graph.updateSpatial", "graph.updateScene", "scene.create",
      "scene.setTime", "scene.update", "scene_manager.update">>

GraphSceneSet == { GraphSceneOrder[i] : i \in 1..Len(GraphSceneOrder) }

\* C16 as stated: a commit to the scene (updateScene) is made only after the
\* spatial recompute of the frame
C16_Original ==
    \A c \in CommitSet :
        Count(frame, c) > 0 =>
            /\ Count(frame, "graph.updateSpatial") > 0
            /\ Before(frame, "graph.updateSpatial", c)

\* C16: the graph and scene calls of a frame are made in the order
\* setGlobalTransform, node_object.updateScene, graph.updateSpatial,
\* graph.updateScene, scene.create, scene.setTime, scene.update,
\* scene_manager.update, each at most once: the node is committed before the
\* spatial recompute and the graph after it, and scene_manager.update is the
\* last call of the scene update, followed by nothing but the early compute
C16_SceneUpdateOrder ==
    [](/\ IsPrefix(Only(frame, GraphSceneSet), GraphSceneOrder)
       /\ Before(frame, "node_object.setGlobalTransform", "node_object.updateScene")
       /\ Before(frame, "node_object.updateScene", "graph.updateSpatial")
       /\ Before(frame, "graph.updateSpatial", "graph.updateScene")
       /\ \A c \in SceneUpdateSet \ {"scene_manager.update"} :
             Before(frame, c, "scene_manager.update")
       /\ \A i \in At(frame, "scene_manager.update") :
             /\ Only(SubSeq(frame, 1, i), GraphSceneSet) = GraphSceneOrder
             /\ i < Len(frame) => frame[i + 1] = "device.createCompute"
       /\ pc \in 392..489 => Only(frame, GraphSceneSet) = GraphSceneOrder)

\* the scene update of a frame is complete and the early compute is next
C16_Witness ==
    /\ pc = 392
    /\ Only(frame, GraphSceneSet) = GraphSceneOrder
    /\ frame[Len(frame)] = "scene_manager.update"

\* compute scopes created / released by the first i calls of the frame
Created(i) == Count(SubSeq(frame, 1, i), "device.createCompute")
Released(i) == Count(SubSeq(frame, 1, i), "compute.release")

\* the dispatches of the early scope, in the order of the code
EarlyOrder ==
    <<"scene_manager.dispatch", "scene.dispatch", "render_spatial.dispatchFrames",
      "render_spatial.dispatchObjects", "render_renderer.dispatchFrames">>

\* C17 as stated: the early scope receives scene_manager.dispatch,
\* scene.dispatch, dispatchFrames and dispatchObjects, in that order, and
\* nothing else before it is released
C17_Original ==
    IsPrefix(Only(frame, EarlyDispatchSet), SubSeq(EarlyOrder, 1, 4))

\* C17: at every point of a frame at most one compute scope is open; the
\* early scope receives scene_manager.dispatch, scene.dispatch,
\* render_spatial.dispatchFrames, render_spatial.dispatchObjects and
\* render_renderer.dispatchFrames, in that order, and is released before the
\* buffer flushes and drawDeferred; the late scope is created after
\* drawDeferred, receives the late passes and is released before the
\* interface update; every dispatch goes to the open scope and no scope is
\* open during a flush or a draw call
C17_ComputeScopes ==
    [](/\ \A i \in 0..Len(frame) :
             /\ Created(i) - Released(i) \in {0, 1}
             /\ Created(i) <= 2
       /\ IsPrefix(Only(frame, EarlyDispatchSet), EarlyOrder)
       /\ \A i \in 1..Len(frame) :
             /\ frame[i] \in EarlyDispatchSet => Created(i) = 1 /\ Released(i) = 0
             /\ frame[i] \in LateDispatchSet => Created(i) = 2 /\ Released(i) = 1
             /\ frame[i] \in DeferredDrawSet =>
                   /\ Created(i) = 1 /\ Released(i) = 1
                   /\ Only(SubSeq(frame, 1, i), EarlyDispatchSet) = EarlyOrder
             /\ frame[i] \in DrawCalls => Created(i) = Released(i)
             /\ frame[i] \in UIUpdateSet => Created(i) = 2 /\ Released(i) = 2
             /\ (frame[i] = "device.createCompute" /\ Created(i) = 2) =>
                   Count(SubSeq(frame, 1, i), "render_renderer.drawDeferred") = 1)

\* the late scope is open, after the early scope was released and the
\* deferred draw made
C17_Witness ==
    /\ pc = 426
    /\ Created(Len(frame)) = 2
    /\ Released(Len(frame)) = 1
    /\ Count(frame, "render_renderer.drawDeferred") = 1
    /\ Only(frame, EarlyDispatchSet) = EarlyOrder

\* C18: a frame logs 'Frame Resized' at most once, exactly when
\* render_frame.create was called in it and succeeded, right after that call;
\* the logged dimensions are the window's current size, which is the size of
\* the recreated frame target; and a resize check that finds the sizes equal
\* logs nothing
C18_ResizeRecord ==
    /\ [](Count(frame, "Log.FrameResized") <= 1)
    /\ [](Count(frame, "Log.FrameResized") = 1 <=>
            (Count(frame, "render_frame.create") = 1 /\ "render_frame.create" \notin failed))
    /\ []("render_frame.create" \in failed => Count(frame, "Log.FrameResized") = 0)
    /\ [](\A i \in At(frame, "Log.FrameResized") :
            i > 1 /\ frame[i - 1] = "render_frame.create")
    /\ [](resized # <<>> <=> Count(frame, "Log.FrameResized") = 1)
    /\ [](resized # <<>> => resized = <<winW, winH>> /\ resized = <<rfW, rfH>>)
    /\ [][(pc = 362 /\ pc' # pc /\ rfW = winW /\ rfH = winH) =>
             (resized' = <<>> /\ frame' = frame)]_vars
    /\ [][(pc = 362 /\ pc' # pc /\ resized' # <<>>) =>
             (rfW # winW \/ rfH # winH)]_vars

\* the frame target has been recreated for a resized window and the record
\* with the new size logged
C18_Witness ==
    /\ pc = 367
    /\ resized = <<2, 1>>
    /\ rfW = 2 /\ rfH = 1
    /\ frame[Len(frame)] = "Log.FrameResized"

\* C19: in every interleaving the worker enters scene_manager.process at most
\* once and sleeps at most once after scene_manager.terminate() was called,
\* and never enters scene_manager.process after it has seen the flag; an
\* unsuccessful scene_manager.process is always followed by the sleep before
\* the next loop test and the next scene_manager.process
C19_WorkerAfterTerminate ==
    /\ [](procAfterTerm <= 1)
    /\ [](sleepAfterTerm <= 1)
    /\ [](needSleep <=> wpc = "sleep")
    /\ [][(wpc = "sleep" /\ wpc' # wpc) => wpc' = "test"]_vars
    /\ [][(wpc = "process" /\ wpc' # wpc) => wpc' \in {"test", "sleep"}]_vars
    /\ [][procAfterTerm' # procAfterTerm => (terminated /\ ~observed)]_vars
    /\ [](~terminated => procAfterTerm = 0 /\ sleepAfterTerm = 0)

\* the worker has made one scene_manager.process call and slept once after
\* terminate(), and has returned
C19_Witness ==
    /\ terminated
    /\ procAfterTerm = 1
    /\ sleepAfterTerm = 1
    /\ wpc = "done"
    /\ pc = 507

\* C20: whenever main has been left after thread.start(), by a return (line
\* 288 or 512) or by an exception that reaches the entry point,
\* scene_manager.terminate() has been called, thread.join() has been called
\* and the worker has returned
C20_WorkerJoinedOnExit ==
    (pc \in {519, 521} /\ wpc # "idle") =>
        /\ terminated
        /\ Count(shut, "thread.join") = 1
        /\ wpc = "done"

====
